---- MODULE Spec2Model ----
(***************************************************************************)
(* State-machine model of main_script.py: the topic prompt, the web        *)
(* search, the outline generation with its mock fallback, the rendering of *)
(* the seven slides through python-pptx and the two-step save.             *)
(*                                                                         *)
(* Strings the code inspects character by character (the topic, the file   *)
(* name) are sequences of one-character strings.  Slide texts are          *)
(* sequences of fragments: a literal of the source is one fragment, an     *)
(* interpolated topic contributes its characters.                          *)
(***************************************************************************)
EXTENDS Integers, Sequences, FiniteSets, TLC

\* ---------------------------------------------------------------- bounds
MaxTopicLen == 2    \* length of the generated input lines
MaxResults  == 1    \* number of results the search provider returns
MaxLayouts  == 2    \* number of slide layouts of a template document
MaxPh       == 2    \* number of placeholders on a slide layout
MaxIdx      == 2    \* largest placeholder idx on a layout
MaxPoints   == 2    \* length of a points list of a generated section

\* ------------------------------------------------------------ characters
Whitespace == {" "}
LowerLetters == {"a", "c", "e", "g", "h", "i", "l", "m", "n", "o", "t", "u", "v"}
UpperLetters == {"A", "C", "E", "L", "M"}
Digits == {"1"}

\* str.lower() on one character
Lower(c) ==
  CASE c = "A" -> "a"
    [] c = "C" -> "c"
    [] c = "E" -> "e"
    [] c = "L" -> "l"
    [] c = "M" -> "m"
    [] OTHER -> c

\* the regular expression class [\w\-.]
IsWordDashDot(c) == c \in LowerLetters \cup UpperLetters \cup Digits \cup {"_", "-", "."}

RECURSIVE LStrip(_)
LStrip(s) == IF s # <<>> /\ Head(s) \in Whitespace THEN LStrip(Tail(s)) ELSE s

RECURSIVE RStrip(_)
RStrip(s) ==
  IF s # <<>> /\ s[Len(s)] \in Whitespace THEN RStrip(SubSeq(s, 1, Len(s) - 1)) ELSE s

\* a strip that forgets the trailing whitespace
StripLeadingOnly(s) == LStrip(s)

\* str.strip()
Strip(s) == RStrip(LStrip(s))

\* ----------------------------------------------------------- input lines
Alphabet == {" ", "?", "A", "-"}

SeqsUpTo(S, n) == UNION {[1..k -> S] : k \in 0..n}

ClimateChangeBang ==
  <<"C", "l", "i", "m", "a", "t", "e", " ", "C", "h", "a", "n", "g", "e", "!">>
ClimateChangeQuery ==
  <<"C", "l", "i", "m", "a", "t", "e", " ", "C", "h", "a", "n", "g", "e", "?">>
LLMEvaluation ==
  <<"L", "L", "M", " ", "E", "v", "a", "l", "u", "a", "t", "i", "o", "n">>
OnlyPunctuation == <<" ", "?", "?", "?", " ">>

InputLines ==
  SeqsUpTo(Alphabet, MaxTopicLen)
    \cup {ClimateChangeBang, ClimateChangeQuery, LLMEvaluation, OnlyPunctuation}

\* --------------------------------------------------------- file naming
PresentationWord == <<"p", "r", "e", "s", "e", "n", "t", "a", "t", "i", "o", "n">>
PptxExt == <<".", "p", "p", "t", "x">>
FallbackFileName == <<"f", "a", "l", "l", "b", "a", "c", "k", "_">> \o PresentationWord \o PptxExt

\* the substitution applied without lowercasing first
CleanFileNameBaseNoLower(topic_name) ==
  [i \in 1..Len(topic_name) |->
     IF IsWordDashDot(topic_name[i]) THEN topic_name[i] ELSE "_"]

\* re.sub(r'[^\w\-.]', '_', topic_name.lower())
CleanFileNameBase(topic_name) ==
  [i \in 1..Len(topic_name) |->
     IF IsWordDashDot(Lower(topic_name[i])) THEN Lower(topic_name[i]) ELSE "_"]

FileName(topic_name) ==
  LET clean == CleanFileNameBase(topic_name)
      base == IF clean = <<>> THEN PresentationWord ELSE clean
  IN  base \o <<"_">> \o PresentationWord \o PptxExt

\* ------------------------------------------------------------- outlines
\* A parsed JSON value: an object with the keys it holds, a list, or null.
\* A section value is absent ("missing"), an object with the keys "title"
\* and "points" it holds, or a value that is not an object ("null").
SectionKeys ==
  <<"slide_2_overview", "slide_3_key_point_1", "slide_4_key_point_2",
    "slide_5_key_point_3", "slide_6_key_point_4", "slide_7_conclusion">>
SectionKeySet == {SectionKeys[i] : i \in 1..Len(SectionKeys)}

MissingSection == [type |-> "missing", has_title |-> FALSE, title |-> <<>>,
                   has_points |-> FALSE, points |-> <<>>]
NullSection == [MissingSection EXCEPT !.type = "null"]
SectionObject(title, points) ==
  [type |-> "dict", has_title |-> TRUE, title |-> title,
   has_points |-> TRUE, points |-> points]

Object(has_title, title, sections) ==
  [type |-> "dict", len |-> 0, has_slide_1_title |-> has_title,
   slide_1_title |-> title, sections |-> sections]
EmptyObject == Object(FALSE, <<>>, [k \in SectionKeySet |-> MissingSection])
NullValue == [EmptyObject EXCEPT !.type = "null"]
ListValue(n) == [EmptyObject EXCEPT !.type = "list", !.len = n]

\* Python truthiness of a parsed value (line 368: `if not slide_content_json`)
Truthy(v) ==
  CASE v.type = "null" -> FALSE
    [] v.type = "list" -> v.len > 0
    [] OTHER -> v.has_slide_1_title \/ \E k \in SectionKeySet : v.sections[k].type # "missing"

\* the mock outline of lines 164-214
mock_slide_content(topic) ==
  Object(TRUE, <<"A Comprehensive Analysis of ">> \o topic,
    [k \in SectionKeySet |->
       CASE k = "slide_2_overview" ->
              SectionObject(<<"Presentation Overview">>,
                << <<"Introduction to the core concepts of ">> \o topic \o <<".">>,
                   <<"Exploration of key areas and impacts related to ">> \o topic \o <<".">>,
                   <<"Summary of current trends and future projections.">> >>)
         [] k = "slide_3_key_point_1" ->
              SectionObject(<<"Fundamental Aspects of ">> \o topic,
                << <<"Defining the primary characteristics and components.">>,
                   <<"Historical context and evolution.">>,
                   <<"Its significance in the broader field/industry.">> >>)
         [] k = "slide_4_key_point_2" ->
              SectionObject(<<"Current Trends and Developments in ">> \o topic,
                << <<"Highlighting recent advancements and innovations.">>,
                   <<"Statistical data or notable examples of ">> \o topic \o <<" in action.">>,
                   <<"Emerging patterns and shifts in understanding or application.">> >>)
         [] k = "slide_5_key_point_3" ->
              SectionObject(<<"Challenges and Opportunities for ">> \o topic,
                << <<"Identifying key obstacles or limitations concerning ">> \o topic \o <<".">>,
                   <<"Potential areas for growth, research, or improvement.">>,
                   <<"Mitigation strategies for challenges.">> >>)
         [] k = "slide_6_key_point_4" ->
              SectionObject(<<"The Future Outlook of ">> \o topic,
                << <<"Predictions for the evolution of ">> \o topic \o <<" in the next 5-10 years.">>,
                   <<"Potential impact of ">> \o topic \o <<" on society, technology, or specific sectors.">>,
                   <<"Upcoming research directions or anticipated breakthroughs.">> >>)
         [] OTHER ->
              SectionObject(<<"Conclusion and Key Takeaways">>,
                << <<"Recap of the most critical findings about ">> \o topic \o <<".">>,
                   <<"Final thoughts on the importance and relevance of ">> \o topic \o <<".">>,
                   <<"Recommendations for further study or action.">> >>)])

\* ---- what the generation collaborator can answer
\* A section as the model answers it: a title and n points naming the key.
LLMSection(k, n) ==
  SectionObject(<<k, " title">>, [i \in 1..n |-> <<k, " point">>])
LLMTitle == <<"generated title">>
WellFormedAnswer ==
  Object(TRUE, LLMTitle, [k \in SectionKeySet |-> LLMSection(k, MaxPoints)])

\* the shapes a section of an answer can take
SectionShape(k, has_title, has_points, n) ==
  [type |-> "dict", has_title |-> has_title,
   title |-> IF has_title THEN <<k, " title">> ELSE <<>>,
   has_points |-> has_points,
   points |-> IF has_points THEN [i \in 1..n |-> <<k, " point">>] ELSE <<>>]
SectionShapes(k) ==
  {MissingSection, NullSection}
    \cup {SectionShape(k, ht, TRUE, n) : ht \in BOOLEAN, n \in 0..MaxPoints}
    \cup {SectionShape(k, ht, FALSE, 0) : ht \in BOOLEAN}

\* objects in which at most one key departs from the requested schema
Outlines ==
  {WellFormedAnswer, EmptyObject,
   [WellFormedAnswer EXCEPT !.has_slide_1_title = FALSE, !.slide_1_title = <<>>]}
    \cup UNION {{[WellFormedAnswer EXCEPT !.sections[k] = s] : s \in SectionShapes(k)} :
                  k \in SectionKeySet}

ParsedValues == Outlines \cup {NullValue, ListValue(0), ListValue(1)}

\* ---- the environment of one call of generate_slide_content_with_llm
\* key: GEMINI_API_KEY is set; lib: google.generativeai imports;
\* call: "ok" when generate_content returned a response, "error" when
\* configure / GenerativeModel / generate_content raised;
\* text, parts: what reading response.text / response.parts does
\* ("ok", "attribute_error", "error" for any other exception);
\* parses: json.loads accepts the text; value: what it parses to.
LLMEnv(key, lib, call, text, parts, parses, value) ==
  [key |-> key, lib |-> lib, call |-> call, text |-> text, parts |-> parts,
   parses |-> parses, value |-> value]
Accesses == {"ok", "attribute_error", "error"}
LLMEnvs ==
  {LLMEnv(FALSE, TRUE, "ok", "ok", "ok", TRUE, WellFormedAnswer),
   LLMEnv(TRUE, FALSE, "ok", "ok", "ok", TRUE, WellFormedAnswer),
   LLMEnv(TRUE, TRUE, "error", "ok", "ok", TRUE, WellFormedAnswer),
   LLMEnv(TRUE, TRUE, "ok", "ok", "ok", FALSE, NullValue)}
    \cup {LLMEnv(TRUE, TRUE, "ok", t, p, TRUE, NullValue) :
            t \in Accesses \ {"ok"}, p \in Accesses}
    \cup {LLMEnv(TRUE, TRUE, "ok", "ok", "ok", TRUE, v) : v \in ParsedValues}
Providers == {"GEMINI", "NONE"}

Returned(v) == [raised |-> FALSE, value |-> v]
Raised == [raised |-> TRUE, value |-> NullValue]

\* the except handler of lines 148-158; hasattr() turns only an
\* AttributeError into False, any other exception of the property leaves
\* the handler and the function
LLMErrorHandler(env) ==
  IF env.call = "error" THEN "handled"             \* 'response' not in locals()
  ELSE IF env.text = "ok" THEN "handled"
  ELSE IF env.text = "error" THEN "raised"
  ELSE IF env.parts = "error" THEN "raised"
  ELSE "handled"

\* the generator without its `except ImportError` clause
generate_without_import_guard(topic, llm_provider, env) ==
  IF llm_provider = "GEMINI" /\ env.key /\ env.lib
       /\ env.call = "ok" /\ env.text = "ok" /\ env.parses
  THEN Returned(env.value)
  ELSE IF llm_provider = "GEMINI" /\ env.key
            /\ (~env.lib \/ LLMErrorHandler(env) = "raised")
       THEN Raised
       ELSE Returned(mock_slide_content(topic))

generate_slide_content_with_llm(topic, llm_provider, env) ==
  IF llm_provider = "GEMINI" /\ env.key /\ env.lib
       /\ env.call = "ok" /\ env.text = "ok" /\ env.parses
  THEN Returned(env.value)
  ELSE IF llm_provider = "GEMINI" /\ env.key /\ env.lib
            /\ LLMErrorHandler(env) = "raised"
       THEN Raised
       ELSE Returned(mock_slide_content(topic))

\* ------------------------------------------------------------ documents
\* A placeholder of a slide layout: its idx, its name as a sequence of
\* words, and whether it is a text shape.  The placeholder with idx 0 is
\* the title (python-pptx: shapes.title), a text shape named "Title".
Ph(idx, name, has_text_frame) ==
  [idx |-> idx, name |-> name, has_text_frame |-> has_text_frame]
PhNames == {<<"Subtitle">>, <<"Content", "Placeholder">>, <<"Text", "Placeholder">>}
InName(word, name) == \E i \in 1..Len(name) : name[i] = word

PhKinds ==
  {Ph(0, <<"Title">>, TRUE)}
    \cup {Ph(i, n, t) : i \in 1..MaxIdx, n \in PhNames, t \in BOOLEAN}
Layouts ==
  {l \in SeqsUpTo(PhKinds, MaxPh) :
     \A i, j \in 1..Len(l) : i # j => l[i].idx # l[j].idx}

\* the layouts of the document Presentation() starts from
DefaultLayouts ==
  << <<Ph(0, <<"Title">>, TRUE), Ph(1, <<"Subtitle">>, TRUE)>>,
     <<Ph(0, <<"Title">>, TRUE), Ph(1, <<"Content", "Placeholder">>, TRUE)>>,
     <<Ph(0, <<"Title">>, TRUE), Ph(1, <<"Text", "Placeholder">>, TRUE)>>,
     <<Ph(0, <<"Title">>, TRUE), Ph(1, <<"Content", "Placeholder">>, TRUE),
       Ph(2, <<"Content", "Placeholder">>, TRUE)>>,
     <<Ph(0, <<"Title">>, TRUE), Ph(1, <<"Text", "Placeholder">>, TRUE),
       Ph(2, <<"Content", "Placeholder">>, TRUE), Ph(3, <<"Text", "Placeholder">>, TRUE),
       Ph(4, <<"Content", "Placeholder">>, TRUE)>>,
     <<Ph(0, <<"Title">>, TRUE)>>,
     <<>>,
     <<Ph(0, <<"Title">>, TRUE), Ph(1, <<"Content", "Placeholder">>, TRUE),
       Ph(2, <<"Text", "Placeholder">>, TRUE)>>,
     <<Ph(0, <<"Title">>, TRUE), Ph(1, <<"Picture", "Placeholder">>, TRUE),
       Ph(2, <<"Text", "Placeholder">>, TRUE)>>,
     <<Ph(0, <<"Title">>, TRUE), Ph(1, <<"Vertical", "Text", "Placeholder">>, TRUE)>>,
     <<Ph(0, <<"Vertical", "Title">>, TRUE), Ph(1, <<"Vertical", "Text", "Placeholder">>, TRUE)>> >>

\* template files: up to MaxLayouts layouts, the default ones except for
\* at most one layout, which is any of Layouts
TemplateLayouts ==
  UNION {{SubSeq(DefaultLayouts, 1, n)}
           \cup {[SubSeq(DefaultLayouts, 1, n) EXCEPT ![i] = l] : i \in 1..n, l \in Layouts} :
         n \in 0..MaxLayouts}

Presentation(layouts) == [slide_layouts |-> layouts, slides |-> <<>>]

\* template_path: not given, naming no file, naming a file that fails to
\* load, or naming a template
NoTemplate == [path |-> "none", layouts |-> DefaultLayouts]
TemplateArgs ==
  {NoTemplate, [NoTemplate EXCEPT !.path = "absent"], [NoTemplate EXCEPT !.path = "corrupt"]}
    \cup {[path |-> "template", layouts |-> l] : l \in TemplateLayouts}

\* lines 225-235
LoadPresentation(template) ==
  IF template.path = "template" THEN Presentation(template.layouts)
  ELSE Presentation(DefaultLayouts)

\* ---- slides
EmptyParagraph == <<>>
\* prs.slides.add_slide(layout): the layout's placeholders, each with the
\* one empty paragraph of a fresh text frame
NewSlide(layout) ==
  [placeholders |->
     [i \in 1..Len(layout) |->
        [idx |-> layout[i].idx, name |-> layout[i].name,
         has_text_frame |-> layout[i].has_text_frame,
         paragraphs |-> <<EmptyParagraph>>]],
   textboxes |-> <<>>]

Min(S) == CHOOSE x \in S : \A y \in S : x <= y
First(S) == IF S = {} THEN 0 ELSE Min(S)

\* slide.shapes.title: position of the first placeholder with idx 0, 0 for None
TitleShape(slide) ==
  First({i \in 1..Len(slide.placeholders) : slide.placeholders[i].idx = 0})

\* shape.text = text
SetText(slide, i, text) == [slide EXCEPT !.placeholders[i].paragraphs = <<text>>]
\* slide.shapes.add_textbox(...) at the title or the body position
AddTextbox(slide, pos, paragraphs) ==
  [slide EXCEPT !.textboxes = Append(@, [pos |-> pos, paragraphs |-> paragraphs])]

\* a lookup in strict priority: idx 1, then a matching name, then any other
BodyPlaceholderStrict(slide) ==
  LET phs == slide.placeholders
      text == {i \in 1..Len(phs) : phs[i].has_text_frame}
      byIdx == First({i \in text : phs[i].idx = 1})
      byName == First({i \in text : InName("Body", phs[i].name)
                                      \/ InName("Content", phs[i].name)
                                      \/ InName("Object", phs[i].name)})
  IN  IF byIdx # 0 THEN byIdx
      ELSE IF byName # 0 THEN byName
      ELSE First({i \in text : i # TitleShape(slide)})

\* lines 257-268: position of the chosen body placeholder, 0 for None
BodyPlaceholder(slide) ==
  LET phs == slide.placeholders
      first == First({i \in 1..Len(phs) :
                        /\ \/ phs[i].idx = 1
                           \/ InName("Body", phs[i].name)
                           \/ InName("Content", phs[i].name)
                           \/ InName("Object", phs[i].name)
                        /\ phs[i].has_text_frame})
  IN  IF first # 0 THEN first
      ELSE First({i \in 1..Len(phs) : phs[i].has_text_frame /\ i # TitleShape(slide)})

\* the layout index line 243 substitutes
FallbackLayoutIdx == 1

\* lines 239-243: position in slide_layouts of the layout used, 0 when
\* the IndexError of line 243 leaves the helper
ContentLayout(prs, slide_layout_idx) ==
  IF slide_layout_idx < Len(prs.slide_layouts) THEN slide_layout_idx + 1
  ELSE IF FallbackLayoutIdx < Len(prs.slide_layouts) THEN FallbackLayoutIdx + 1
  ELSE 0

\* lines 270-288: tf.clear() keeps one empty paragraph, a new text box
\* has one; every point is appended as a paragraph of its own
FillBody(slide, body, points_list) ==
  IF body # 0
  THEN [slide EXCEPT !.placeholders[body].paragraphs = <<EmptyParagraph>> \o points_list]
  ELSE AddTextbox(slide, "body", <<EmptyParagraph>> \o points_list)

\* lines 237-289
add_content_slide_with_bullets(prs, slide_layout_idx, title_text, points_list) ==
  LET l == ContentLayout(prs, slide_layout_idx) IN
  IF l = 0 THEN [raised |-> TRUE, prs |-> prs, body_placeholder |-> 0]
  ELSE
    LET slide == NewSlide(prs.slide_layouts[l])
        titled == IF TitleShape(slide) # 0
                  THEN SetText(slide, TitleShape(slide), title_text)
                  ELSE AddTextbox(slide, "title", <<title_text>>)
        body == BodyPlaceholder(titled)
    IN  [raised |-> FALSE,
         prs |-> [prs EXCEPT !.slides = Append(@, FillBody(titled, body, points_list))],
         body_placeholder |-> body]

\* ------------------------------------------------------------ rendering
title_slide_layout_idx == 0
content_slide_layout_idx == 1

SubtitleText(topic_name) == <<"AI-Generated Presentation on: ">> \o topic_name

\* line 294
Slide1TitleText(content_json, topic_name) ==
  IF content_json.has_slide_1_title THEN content_json.slide_1_title
  ELSE topic_name \o <<" - An Overview">>

\* lines 301-307: position of the subtitle placeholder, 0 for None, -1
\* when slide.placeholders[1] finds no placeholder with idx 1 (KeyError)
SubtitlePlaceholder(slide) ==
  LET phs == slide.placeholders
      found == First({i \in 1..Len(phs) :
                        /\ phs[i].idx = 1 \/ InName("Subtitle", phs[i].name)
                        /\ phs[i].has_text_frame})
      idx1 == First({i \in 1..Len(phs) : phs[i].idx = 1})
  IN  IF Len(phs) <= 1 THEN 0
      ELSE IF found # 0 THEN found
      ELSE IF idx1 = 0 THEN -1
      ELSE IF phs[idx1].has_text_frame THEN idx1
      ELSE 0

\* lines 295-316, the try block: the document it leaves behind, and
\* whether an exception left it
TitleSlideTry(prs, slide1_title_text, topic_name) ==
  IF title_slide_layout_idx >= Len(prs.slide_layouts)
  THEN [error |-> TRUE, prs |-> prs]
  ELSE
    LET slide == NewSlide(prs.slide_layouts[title_slide_layout_idx + 1])
        titled == IF TitleShape(slide) # 0
                  THEN SetText(slide, TitleShape(slide), slide1_title_text)
                  ELSE slide
        sub == SubtitlePlaceholder(titled)
        done == IF sub > 0 THEN SetText(titled, sub, SubtitleText(topic_name)) ELSE titled
    IN  IF sub = -1
        THEN [error |-> TRUE, prs |-> [prs EXCEPT !.slides = Append(@, titled)]]
        ELSE [error |-> FALSE, prs |-> [prs EXCEPT !.slides = Append(@, done)]]

\* lines 294-319
TitleSlide(prs, content_json, topic_name) ==
  IF content_json.type # "dict"
  THEN [raised |-> TRUE, prs |-> prs]                       \* no .get on a list
  ELSE
    LET text == Slide1TitleText(content_json, topic_name)
        try == TitleSlideTry(prs, text, topic_name)
        fallback == add_content_slide_with_bullets(try.prs, content_slide_layout_idx,
                                                   text, <<SubtitleText(topic_name)>>)
    IN  IF try.error THEN [raised |-> fallback.raised, prs |-> fallback.prs]
        ELSE [raised |-> FALSE, prs |-> try.prs]

DigitOf(i) == <<"1", "2", "3", "4">>[i]

\* the defaults of lines 323-335 for the j-th content section
DefaultTitle(j) ==
  CASE j = 1 -> <<"Overview">>
    [] j = 6 -> <<"Conclusion / Takeaways">>
    [] OTHER -> <<"Key Point ", DigitOf(j - 1)>>
DefaultPoints(j) ==
  CASE j = 1 -> << <<"No overview points generated.">> >>
    [] j = 6 -> << <<"No conclusion points generated.">> >>
    [] OTHER -> << <<"No points generated for Key Point ", DigitOf(j - 1), ".">> >>

\* lines 321-335: the arguments of the j-th call of the helper
SectionArgs(content_json, j) ==
  LET data == content_json.sections[SectionKeys[j]] IN
  [raised |-> data.type = "null",                            \* no .get on None
   title |-> IF data.has_title THEN data.title ELSE DefaultTitle(j),
   points |-> IF data.has_points THEN data.points ELSE DefaultPoints(j)]

\* --------------------------------------------------------------- search
\* lines 58-64
mock_results(topic) ==
  << <<"Recent study on '">> \o topic \o <<"' shows increasing trends in area X.">>,
     <<"'">> \o topic \o <<"' is impacting global markets significantly, especially sector Y.">>,
     <<"Key challenges in '">> \o topic \o <<"' include A, B, and C, according to expert Z.">>,
     <<"Innovations in '">> \o topic \o <<"' are driven by new technologies like AI and blockchain.">>,
     <<"Future outlook for '">> \o topic \o <<"' suggests further development in application Q.">> >>

\* key: TAVILY_API_KEY is set; ok: the library imports and the search
\* returns; results: the number of results of the response
SearchEnvs == [key : BOOLEAN, ok : BOOLEAN, results : 0..MaxResults]

\* lines 27-65
perform_web_search(topic, search_provider, env) ==
  IF search_provider = "TAVILY" /\ env.key /\ env.ok
  THEN [i \in 1..env.results |-> <<"content of a result">>]
  ELSE mock_results(topic)

\* lines 362-364
SnippetsOrNotice(topic, web_snippets) ==
  IF web_snippets = <<>>
  THEN << <<"No specific web information found for ">> \o topic
             \o <<", relying on general knowledge.">> >>
  ELSE web_snippets

\* ---------------------------------------------------------------- state
VARIABLES
  pc,                 \* position of the program
  line,               \* the last line read by input()
  topic,              \* the topic get_topic_from_user returned
  snippets,           \* web_snippets
  llm,                \* provider and environment of the generation call
  content,            \* slide_content_json / content_json
  template,           \* the template_path argument
  prs,                \* the python-pptx document
  section,            \* number of content sections rendered
  body_placeholder,   \* body_placeholder of the last call of the helper
  args,               \* arguments of the last call of the helper
  file_name,          \* file_name of line 339
  saves,              \* the prs.save calls made, with their outcome
  presentation_file,  \* what create_presentation_from_content returned
  printed             \* the path line 376 printed

vars == <<pc, line, topic, snippets, llm, content, template, prs, section,
          body_placeholder, args, file_name, saves, presentation_file, printed>>

None == <<>>
NoArgs == [slide_layout_idx |-> 0, title_text |-> <<>>, points_list |-> <<>>]
NoLLM == [provider |-> "NONE", env |-> LLMEnv(FALSE, FALSE, "ok", "ok", "ok", FALSE, NullValue)]

Blank ==
  /\ line = <<>> /\ topic = <<>> /\ snippets = <<>> /\ llm = NoLLM
  /\ content = NullValue /\ template = NoTemplate
  /\ prs = Presentation(<<>>) /\ section = 0 /\ body_placeholder = 0
  /\ args = NoArgs /\ file_name = None /\ saves = <<>>
  /\ presentation_file = None /\ printed = None

\* ------------------------------------------------------- the main script
\* lines 16-24, one round of the loop
get_topic_from_user ==
  /\ pc = "input"
  /\ \E l \in InputLines :
       /\ line' = l
       /\ IF Strip(l) # <<>>
          THEN topic' = Strip(l) /\ pc' = "search"
          ELSE topic' = topic /\ pc' = "input"
  /\ UNCHANGED <<snippets, llm, content, template, prs, section, body_placeholder,
                 args, file_name, saves, presentation_file, printed>>

\* lines 361-364
WebSearch ==
  /\ pc = "search"
  /\ \E provider \in {"TAVILY", "NONE"}, env \in SearchEnvs :
       snippets' = SnippetsOrNotice(topic, perform_web_search(topic, provider, env))
  /\ pc' = "generate"
  /\ UNCHANGED <<line, topic, llm, content, template, prs, section, body_placeholder,
                 args, file_name, saves, presentation_file, printed>>

\* line 366
GenerateContent ==
  /\ pc = "generate"
  /\ \E provider \in Providers, env \in LLMEnvs :
       LET r == generate_slide_content_with_llm(topic, provider, env) IN
       /\ llm' = [provider |-> provider, env |-> env]
       /\ IF r.raised
          THEN pc' = "crashed" /\ content' = content
          ELSE pc' = "generated" /\ content' = r.value
  /\ UNCHANGED <<line, topic, snippets, template, prs, section, body_placeholder,
                 args, file_name, saves, presentation_file, printed>>

\* lines 368-369 and 380
NoContent ==
  /\ pc = "generated"
  /\ ~Truthy(content)
  /\ pc' = "finished"
  /\ UNCHANGED <<line, topic, snippets, llm, content, template, prs, section,
                 body_placeholder, args, file_name, saves, presentation_file, printed>>

\* lines 370-373
CallCreate ==
  /\ pc = "generated"
  /\ Truthy(content)
  /\ template' = NoTemplate
  /\ pc' = "create"
  /\ UNCHANGED <<line, topic, snippets, llm, content, prs, section, body_placeholder,
                 args, file_name, saves, presentation_file, printed>>

\* ------------------------------------- create_presentation_from_content
\* lines 224-235
OpenDocument ==
  /\ pc = "create"
  /\ prs' = LoadPresentation(template)
  /\ pc' = "title_slide"
  /\ UNCHANGED <<line, topic, snippets, llm, content, template, section,
                 body_placeholder, args, file_name, saves, presentation_file, printed>>

\* lines 294-319
AddTitleSlide ==
  /\ pc = "title_slide"
  /\ LET r == TitleSlide(prs, content, topic) IN
       /\ prs' = r.prs
       /\ pc' = IF r.raised THEN "crashed" ELSE "content"
  /\ UNCHANGED <<line, topic, snippets, llm, content, template, section,
                 body_placeholder, args, file_name, saves, presentation_file, printed>>

\* lines 321-335, one call of the helper
AddSectionSlide ==
  /\ pc = "content"
  /\ LET a == SectionArgs(content, section + 1)
         r == add_content_slide_with_bullets(prs, content_slide_layout_idx,
                                             a.title, a.points)
     IN  IF a.raised
         THEN /\ pc' = "crashed"
              /\ UNCHANGED <<prs, section, body_placeholder, args>>
         ELSE /\ args' = [slide_layout_idx |-> content_slide_layout_idx,
                          title_text |-> a.title, points_list |-> a.points]
              /\ prs' = r.prs
              /\ body_placeholder' = r.body_placeholder
              /\ IF r.raised
                 THEN pc' = "crashed" /\ section' = section
                 ELSE /\ section' = section + 1
                      /\ pc' = IF section + 1 = Len(SectionKeys) THEN "save" ELSE "content"
  /\ UNCHANGED <<line, topic, snippets, llm, content, template, file_name, saves,
                 presentation_file, printed>>

\* lines 337-346
SavePrimary ==
  /\ pc = "save"
  /\ file_name' = FileName(topic)
  /\ \E ok \in BOOLEAN :
       /\ saves' = Append(saves, [name |-> FileName(topic), ok |-> ok])
       /\ IF ok
          THEN presentation_file' = FileName(topic) /\ pc' = "returned"
          ELSE presentation_file' = presentation_file /\ pc' = "save_fallback"
  /\ UNCHANGED <<line, topic, snippets, llm, content, template, prs, section,
                 body_placeholder, args, printed>>

\* a fallback save that returns the derived name
SaveFallbackDerivedName ==
  /\ pc = "save_fallback"
  /\ \E ok \in BOOLEAN :
       /\ saves' = Append(saves, [name |-> FallbackFileName, ok |-> ok])
       /\ presentation_file' = IF ok THEN file_name ELSE None
  /\ pc' = "returned"
  /\ UNCHANGED <<line, topic, snippets, llm, content, template, prs, section,
                 body_placeholder, args, file_name, printed>>

\* lines 347-354
SaveFallback ==
  /\ pc = "save_fallback"
  /\ \E ok \in BOOLEAN :
       /\ saves' = Append(saves, [name |-> FallbackFileName, ok |-> ok])
       /\ presentation_file' = IF ok THEN FallbackFileName ELSE None
  /\ pc' = "returned"
  /\ UNCHANGED <<line, topic, snippets, llm, content, template, prs, section,
                 body_placeholder, args, file_name, printed>>

\* lines 375-380
Report ==
  /\ pc = "returned"
  /\ printed' = presentation_file
  /\ pc' = "finished"
  /\ UNCHANGED <<line, topic, snippets, llm, content, template, prs, section,
                 body_placeholder, args, file_name, saves, presentation_file>>

Init == pc = "input" /\ Blank

Next ==
  \/ get_topic_from_user
  \/ WebSearch
  \/ GenerateContent
  \/ NoContent
  \/ CallCreate
  \/ OpenDocument
  \/ AddTitleSlide
  \/ AddSectionSlide
  \/ SavePrimary
  \/ SaveFallback
  \/ Report

Spec == Init /\ [][Next]_vars

\* ---- create_presentation_from_content called with any outline and template
RenderTopic == LLMEvaluation

InitRender ==
  /\ pc = "create"
  /\ line = <<>> /\ snippets = <<>> /\ llm = NoLLM
  /\ topic = RenderTopic
  /\ content \in Outlines \cup {mock_slide_content(RenderTopic)}
  /\ template \in TemplateArgs
  /\ prs = Presentation(<<>>) /\ section = 0 /\ body_placeholder = 0
  /\ args = NoArgs /\ file_name = None /\ saves = <<>>
  /\ presentation_file = None /\ printed = None

NextRender ==
  \/ OpenDocument
  \/ AddTitleSlide
  \/ AddSectionSlide
  \/ SavePrimary
  \/ SaveFallback

SpecRender == InitRender /\ [][NextRender]_vars

\* ---- add_content_slide_with_bullets called on any document
HelperTitle == <<"a title">>
HelperPoints == {[i \in 1..n |-> <<"a point">>] : n \in 0..MaxPoints}

CallHelper ==
  /\ pc = "helper"
  /\ \E idx \in 0..MaxLayouts, points \in HelperPoints :
       LET r == add_content_slide_with_bullets(prs, idx, HelperTitle, points) IN
       /\ args' = [slide_layout_idx |-> idx, title_text |-> HelperTitle,
                   points_list |-> points]
       /\ prs' = r.prs
       /\ body_placeholder' = r.body_placeholder
       /\ pc' = IF r.raised THEN "crashed" ELSE "helper_done"
  /\ UNCHANGED <<line, topic, snippets, llm, content, template, section, file_name,
                 saves, presentation_file, printed>>

InitHelper ==
  /\ pc = "helper"
  /\ line = <<>> /\ topic = <<>> /\ snippets = <<>> /\ llm = NoLLM
  /\ content = NullValue
  /\ template \in TemplateArgs
  /\ prs = LoadPresentation(template)
  /\ section = 0 /\ body_placeholder = 0
  /\ args = NoArgs /\ file_name = None /\ saves = <<>>
  /\ presentation_file = None /\ printed = None

SpecHelper == InitHelper /\ [][CallHelper]_vars

\* =============================================================== claims
\* ---- views of a rendered slide
Shapes(slide) ==
  {slide.placeholders[i] : i \in 1..Len(slide.placeholders)}
    \cup {slide.textboxes[i] : i \in 1..Len(slide.textboxes)}
\* some shape of the slide shows exactly this text
Shows(slide, text) == \E sh \in Shapes(slide) : sh.paragraphs = <<text>>
\* the bullet lists of the slide: the paragraphs appended to a cleared or
\* new text frame
ShownBullets(slide) ==
  {Tail(sh.paragraphs) : sh \in {x \in Shapes(slide) : Len(x.paragraphs) > 1}}

AtSave == pc \in {"save", "save_fallback", "returned", "finished"}
AfterInput == pc # "input"
AfterGenerate == pc \notin {"input", "search", "generate"}

\* C1: at save time the document holds exactly 7 slides, the six content
\* sections on slides 2..7 in their order, whichever path built slide 1.
C1_SevenSlidesInOrder ==
  AtSave =>
    /\ Len(prs.slides) = 7
    /\ \A j \in 1..6 : Shows(prs.slides[j + 1], SectionArgs(content, j).title)

\* C2: generate_slide_content_with_llm returns, for every outcome of the
\* collaborator, an object with the title and all six title/points sections.
UsableOutline(v) ==
  /\ v.type = "dict"
  /\ v.has_slide_1_title
  /\ \A k \in SectionKeySet :
       v.sections[k].type = "dict" /\ v.sections[k].has_title /\ v.sections[k].has_points
C2_AlwaysUsableOutline == AfterGenerate => UsableOutline(content)

\* C3: a run ends without an output file only when both saves failed;
\* otherwise it saved a seven-slide deck and printed its path.
C3_NoFileOnlyWhenBothSavesFail ==
  pc \in {"finished", "crashed"} =>
    \/ /\ Len(prs.slides) = 7
       /\ saves # <<>> /\ saves[Len(saves)].ok
       /\ printed = saves[Len(saves)].name
    \/ Len(saves) = 2 /\ ~saves[1].ok /\ ~saves[2].ok

\* C4: a content section that is missing or has no points is rendered with
\* exactly one placeholder bullet, and no content slide has zero bullets.
NoPoints(sec) == sec.type # "dict" \/ ~sec.has_points \/ sec.points = <<>>
C4_PlaceholderBullet ==
  AtSave =>
    \A j \in 1..6 :
      LET slide == prs.slides[Len(prs.slides) - 6 + j] IN
      /\ ShownBullets(slide) # {}
      /\ NoPoints(content.sections[SectionKeys[j]]) =>
           \E b \in ShownBullets(slide) : Len(b) = 1 /\ ShownBullets(slide) = {b}

\* C5: the derived name is saved first; the fallback name is tried once and
\* only after the first save failed; the function returns the name of the
\* save that succeeded, None when both failed; at most two saves.
C5_SaveProtocol ==
  /\ Len(saves) <= 2
  /\ saves # <<>> => saves[1].name = file_name /\ file_name # None
  /\ Len(saves) = 2 => ~saves[1].ok /\ saves[2].name = FallbackFileName
  /\ pc = "save_fallback" => Len(saves) = 1 /\ ~saves[1].ok
  /\ pc = "returned" =>
       /\ saves # <<>>
       /\ saves[Len(saves)].ok \/ Len(saves) = 2
       /\ presentation_file =
            IF saves[Len(saves)].ok THEN saves[Len(saves)].name ELSE None
  /\ pc = "crashed" => saves = <<>>
C5_Witness ==
  /\ pc = "returned" /\ Len(saves) = 2 /\ saves[2].ok
  /\ presentation_file = FallbackFileName /\ presentation_file # file_name

\* C6 as stated: both topics give climate_change_presentation.pptx.
ClimateTopics == {ClimateChangeBang, ClimateChangeQuery}
ClimateChange ==
  <<"c", "l", "i", "m", "a", "t", "e", "_", "c", "h", "a", "n", "g", "e">>
PresentationPptx ==
  <<"p", "r", "e", "s", "e", "n", "t", "a", "t", "i", "o", "n", ".", "p", "p", "t", "x">>
C6_SingleUnderscore ==
  (topic \in ClimateTopics /\ file_name # None) =>
    file_name = ClimateChange \o <<"_">> \o PresentationPptx
\* C6 amended: the final "!" or "?" becomes an underscore of its own, so
\* both topics give climate_change__presentation.pptx.
C6_DoubleUnderscore ==
  (topic \in ClimateTopics /\ file_name # None) =>
    file_name = ClimateChange \o <<"_", "_">> \o PresentationPptx
C6_Witness ==
  /\ pc = "finished" /\ topic = ClimateChangeQuery
  /\ printed = file_name /\ file_name # None

\* C7 as stated: no empty and no punctuation-only topic leaves the prompt.
NotLetterOrDigit == {" ", "?", "!", "-", ".", "_"}
C7_PunctuationRejected ==
  AfterInput => topic # <<>> /\ \E i \in 1..Len(topic) : topic[i] \notin NotLetterOrDigit
\* C7 amended: a round of the prompt re-prompts exactly when the line is
\* blank; any other line, one of punctuation only included, is returned
\* stripped of its leading and trailing whitespace.
IsBlank(s) == \A i \in 1..Len(s) : s[i] \in Whitespace
C7_BlankRejected ==
  [][ pc = "input" =>
        IF IsBlank(line')
        THEN pc' = "input"
        ELSE /\ pc' = "search"
             /\ topic' # <<>>
             /\ topic'[1] \notin Whitespace /\ topic'[Len(topic')] \notin Whitespace
             /\ \E i, j \in 1..Len(line') : topic' = SubSeq(line', i, j)
             /\ Len(topic') = Cardinality({i \in 1..Len(line') : line'[i] \notin Whitespace})
                                + Cardinality({i \in 1..Len(topic') : topic'[i] \in Whitespace})
    ]_vars
C7_Witness ==
  /\ pc = "finished" /\ topic = <<"?", "?", "?">> /\ line = OnlyPunctuation
  /\ printed # None

\* C8: with the collaborator unavailable the outline is the template built
\* from the topic: the stated slide 1 title, seven non-empty titles, six
\* non-empty points lists, the topic mentioned in every section.
Unavailable(l) ==
  l.provider # "GEMINI" \/ ~l.env.key \/ ~l.env.lib \/ l.env.call = "error"
\* text contains the contiguous run sub
Mentions(text, sub) ==
  \E i \in 1..(Len(text) - Len(sub) + 1) : SubSeq(text, i, i + Len(sub) - 1) = sub
SectionMentions(sec, t) ==
  Mentions(sec.title, t) \/ \E i \in 1..Len(sec.points) : Mentions(sec.points[i], t)
C8_TotalFallback ==
  (AfterGenerate /\ Unavailable(llm)) =>
    /\ topic # <<>>
    /\ content.type = "dict" /\ content.has_slide_1_title
    /\ content.slide_1_title = <<"A Comprehensive Analysis of ">> \o topic
    /\ \A k \in SectionKeySet :
         LET sec == content.sections[k] IN
         /\ sec.type = "dict" /\ sec.has_title /\ sec.has_points
         /\ sec.title # <<>> /\ sec.points # <<>>
         /\ \A i \in 1..Len(sec.points) : sec.points[i] # <<>>
         /\ SectionMentions(sec, topic)
C8_Witness ==
  /\ pc = "generated" /\ llm.provider = "GEMINI" /\ llm.env.key /\ llm.env.call = "error"
  /\ topic = LLMEvaluation
  /\ content.slide_1_title = <<"A Comprehensive Analysis of ">> \o LLMEvaluation

\* C9: for any document the helper adds the slide with its title and its
\* bullets, substituting a valid layout or a text box where needed.
C9_HelperAlwaysAddsSlide ==
  pc # "helper" =>
    /\ pc = "helper_done"
    /\ Len(prs.slides) = 1
    /\ Shows(prs.slides[1], args.title_text)
    /\ \E sh \in Shapes(prs.slides[1]) :
         sh.paragraphs = <<EmptyParagraph>> \o args.points_list

\* C10 as stated: strict priority idx 1, then a Body/Content/Object name,
\* then any other text placeholder but the title, then a text box.
BodyName(ph) ==
  InName("Body", ph.name) \/ InName("Content", ph.name) \/ InName("Object", ph.name)
====
